---- MODULE Spec2Model ----
(***************************************************************************)
(* A model of the layout/composition engine of leptos-tui: the geometry    *)
(* (Size, Limits, XY), the two drawing surfaces (BufDrawSurface of         *)
(* surface.rs and StdOutDrawSurface of lib.rs) and the built-in widgets.   *)
(*                                                                         *)
(* Strings are sequences of one-character strings, so that slicing,        *)
(* str::lines and textwrap::wrap are computed character by character.      *)
(* Integers are u16 where the source's are: an overflowing operation       *)
(* panics in a debug build and wraps modulo 2^16 in a release build.       *)
(***************************************************************************)
EXTENDS Integers, Sequences, FiniteSets

VARIABLES
  debug,      \* cfg(debug_assertions): debug_assert! and overflow checks are on
  impl,       \* which DrawSurface the run uses: "Buf" or "StdOut"
  top_left,   \* the surface's field top_left
  size,       \* the surface's field size
  buf,        \* the commands queued to the sink (BufWriter), oldest first
  stack,      \* the active shrink calls, outermost first: one frame each
  base,       \* the region the surface had when no shrink was active
  panics,     \* the panics the run's caller has caught so far
  writes,     \* the write calls of the run so far
  last,       \* the last operation: its arguments and what it did
  view,       \* the root view: a tree of nodes with their layout caches
  lay,        \* the last layout pass: its limits and what it returned
  geo,        \* the last call of a function of Limits: its inputs and result
  rt          \* the reactive runtime and scope: the signal, the effects, the lock


----------------------------------------------------------------------------
(* Bounds of the model. *)

MaxW == 2        \* widths and x offsets range over 0..MaxW
MaxH == 1        \* heights and y offsets range over 0..MaxH
MaxLen == 3      \* the longest text written to a surface
MaxDepth == 2    \* the deepest nesting of shrink calls
MaxWrites == 1   \* write calls per run: the run ends with the last
MaxPanics == 1   \* panics per run: the run ends with the last
MaxLimW == 3     \* the widths of layout limits range over 0..MaxLimW
MaxLimH == 2     \* the heights of layout limits range over 0..MaxLimH
MaxText == 2     \* the longest text of a Text or a Button
MaxNest == 1     \* the containers (Center, DynChild) around a leaf
MaxSignal == 1   \* the signal holds a value of 0..MaxSignal
MaxSets == 2     \* mutations of the signal per run

(* u16 *)
U16 == 65536

Min(a, b) == IF a <= b THEN a ELSE b
Max(a, b) == IF a >= b THEN a ELSE b

----------------------------------------------------------------------------
(* Geometry: lib.rs *)

Size(w, h) == [width |-> w, height |-> h]
XY(x, y) == [x |-> x, y |-> y]
Limits(minw, maxw, minh, maxh) ==
  [min_width |-> minw, max_width |-> maxw, min_height |-> minh, max_height |-> maxh]

Sizes == {Size(w, h) : w \in 0..MaxW, h \in 0..MaxH}
XYs == {XY(x, y) : x \in 0..MaxW, y \in 0..MaxH}

linear_length(s) == s.width * s.height

(* impl PartialOrd for Size: the order of the areas. *)
SizeCmp(a, b) ==
  IF linear_length(a) < linear_length(b) THEN "Less"
  ELSE IF linear_length(a) = linear_length(b) THEN "Equal" ELSE "Greater"

SizeGe(a, b) == SizeCmp(a, b) \in {"Greater", "Equal"}
SizeLe(a, b) == SizeCmp(a, b) \in {"Less", "Equal"}

max_size(l) == Size(l.max_width, l.max_height)
min_size(l) == Size(l.min_width, l.min_height)

is_size_within_limits(l, s) == SizeGe(max_size(l), s) /\ SizeLe(min_size(l), s)

(* strict without its minimum *)
strict_max_only(w, h) == Limits(0, w, 0, h)

strict(w, h) == Limits(w, w, h, h)

----------------------------------------------------------------------------
(* Strings *)

Letters == <<"a", "b", "c", "d", "e", "f", "g", "h">>
NL == "\n"

(* The texts of length n: every position holds its own letter or a line    *)
(* break, so that a prefix, a suffix and a later line are all different.   *)
TextsOfLen(n) ==
  {[i \in 1..n |-> IF i \in S THEN NL ELSE Letters[i]] : S \in SUBSET (1..n)}

WriteData == UNION {TextsOfLen(n) : n \in 0..MaxLen}

NlPos(data) == {i \in 1..Len(data) : data[i] = NL}
FirstNl(data) == CHOOSE i \in NlPos(data) : \A j \in NlPos(data) : i <= j

(* data.lines().next(): None for the empty string. *)
FirstLine(data) ==
  IF NlPos(data) = {} THEN data ELSE SubSeq(data, 1, FirstNl(data) - 1)

(* str::lines: split at line breaks, a final line break opens no line. *)
RECURSIVE Lines(_)
Lines(data) ==
  IF data = <<>> THEN <<>>
  ELSE IF NlPos(data) = {} THEN <<data>>
  ELSE <<FirstLine(data)>> \o Lines(SubSeq(data, FirstNl(data) + 1, Len(data)))

----------------------------------------------------------------------------
(* Commands queued to the sink *)

MoveTo(x, y) == [cmd |-> "MoveTo", x |-> x, y |-> y, text |-> <<>>]
PrintCmd(text) == [cmd |-> "Print", x |-> 0, y |-> 0, text |-> text]
MoveToNextLine == [cmd |-> "MoveToNextLine", x |-> 0, y |-> 1, text |-> <<>>]

(* The optional foreground colour, background colour and attribute of      *)
(* write_styled: TRUE for Some(_).                                         *)
Style(fg, bg, attr) == [fg |-> fg, bg |-> bg, attr |-> attr]
NoStyle == Style(FALSE, FALSE, FALSE)
(* The styles the repository's callers pass: DrawSurface::write and an     *)
(* unfocused Button pass none, a focused Button a background and Bold.     *)
Styles == {NoStyle, Style(FALSE, TRUE, TRUE)}

(* The escape codes write_styled wraps the clipped text in. *)
Styled(text, style) ==
  LET d1 == IF style.fg THEN <<"SetForegroundColor">> \o text ELSE text
      d2 == IF style.bg THEN <<"SetBackgroundColor">> \o d1 ELSE d1
      d3 == IF style.attr
            THEN <<"SetAttribute">> \o d2 \o <<"SetAttribute(Reset)">> ELSE d2
  IN IF style.fg \/ style.bg THEN d3 \o <<"ResetColor">> ELSE d3

(* The escape codes taken out again: the characters a print shows. *)
Escapes ==
  {"SetForegroundColor", "SetBackgroundColor", "SetAttribute",
   "SetAttribute(Reset)", "ResetColor"}
Chars(text) == SelectSeq(text, LAMBDA c : c \notin Escapes)

----------------------------------------------------------------------------
(* The outcome of one write: what the call reports and what it queues.     *)
(* result is "ok" (returned, () or Ok), "err" (returned Err) or "panic".   *)

Outcome(result, emitted) == [result |-> result, emitted |-> emitted]

(* BufDrawSurface::write_styled *)
write_styled(at, data, style) ==
  IF data = <<>> THEN Outcome("ok", <<>>)
  ELSE IF at.y > size.height THEN Outcome("ok", <<>>)
  ELSE IF at.x > size.width THEN Outcome("ok", <<>>)
  ELSE LET first == FirstLine(data)
           end == Min(size.width - at.x, Len(data))
       IN IF end > Len(first)
          THEN Outcome("panic", <<>>)   \* the slice runs past the first line
          ELSE Outcome("ok",
                 <<MoveTo(at.x, at.y), PrintCmd(Styled(SubSeq(first, 1, end), style))>>)

(* XY + XY of derive_more::Add, on u16 *)
XYOverflows(a, b) == a.x + b.x >= U16 \/ a.y + b.y >= U16
XYAdd(a, b) == XY((a.x + b.x) % U16, (a.y + b.y) % U16)

RECURSIVE QueueLines(_)
QueueLines(lines) ==
  IF lines = <<>> THEN <<>>
  ELSE <<PrintCmd(Head(lines)), MoveToNextLine>> \o QueueLines(Tail(lines))

(* StdOutDrawSurface::write *)
StdOut_write(at, data) ==
  LET lines == Lines(data)
      long == {i \in 1..Len(lines) : Len(lines[i]) > at.x + size.width}
  IN IF at.y + Len(lines) > size.height
     THEN (IF size.height >= Len(lines)
           THEN Outcome("panic", <<>>)   \* lines[height]: index out of bounds
           ELSE Outcome("err", <<>>))
     ELSE IF long # {} THEN Outcome("err", <<>>)
     ELSE IF at.x + Len(data) > size.width
     THEN (IF size.width > Len(data)
           THEN Outcome("panic", <<>>)   \* data[width..]: start past the end
           ELSE Outcome("err", <<>>))
     ELSE IF debug /\ XYOverflows(top_left, at) THEN Outcome("panic", <<>>)
     ELSE Outcome("ok",
            <<MoveTo(XYAdd(top_left, at).x, XYAdd(top_left, at).y)>>
              \o QueueLines(lines))

----------------------------------------------------------------------------
(* textwrap::wrap(text, width), as Text::layout and Button::layout call    *)
(* it: the text is split at line breaks, each line into words (a run of    *)
(* characters and the spaces after it), words longer than the width are    *)
(* broken apart, and the words are put on lines first-fit; a line's text   *)
(* drops the spaces after its last word.                                   *)

SP == " "

(* The number of leading elements of s that are (want) or are not spaces. *)
LeadCount(s, want) ==
  CHOOSE k \in 0..Len(s) :
    /\ \A i \in 1..k : (s[i] = SP) = want
    /\ k = Len(s) \/ (s[k + 1] = SP) # want

RECURSIVE SplitLines(_)
SplitLines(text) ==
  IF NlPos(text) = {} THEN <<text>>
  ELSE <<FirstLine(text)>> \o SplitLines(SubSeq(text, FirstNl(text) + 1, Len(text)))

RECURSIVE find_words(_)
find_words(line) ==
  IF line = <<>> THEN <<>>
  ELSE LET wl == LeadCount(line, FALSE)
           rest == SubSeq(line, wl + 1, Len(line))
           sl == LeadCount(rest, TRUE)
       IN <<[word |-> SubSeq(line, 1, wl), ws |-> SubSeq(rest, 1, sl)]>>
            \o find_words(SubSeq(rest, sl + 1, Len(rest)))

(* Word::break_apart: pieces of at most p >= 1 characters, the spaces stay *)
(* with the last.                                                          *)
RECURSIVE break_apart(_, _)
break_apart(w, p) ==
  IF Len(w.word) <= p THEN <<w>>
  ELSE <<[word |-> SubSeq(w.word, 1, p), ws |-> <<>>]>>
         \o break_apart([word |-> SubSeq(w.word, p + 1, Len(w.word)), ws |-> w.ws], p)

RECURSIVE break_words(_, _)
break_words(words, width) ==
  IF words = <<>> THEN <<>>
  ELSE (IF Len(Head(words).word) > width
        THEN break_apart(Head(words), Max(width, 1))
        ELSE <<Head(words)>>)
         \o break_words(Tail(words), width)

(* wrap_first_fit: the words from index idx on, the current line starting  *)
(* at index start and being used characters wide.                          *)
RECURSIVE wrap_first_fit(_, _, _, _, _)
wrap_first_fit(words, width, idx, start, used) ==
  IF idx > Len(words) THEN <<SubSeq(words, start, Len(words))>>
  ELSE LET w == words[idx]
       IN IF used + Len(w.word) > width /\ idx > start
          THEN <<SubSeq(words, start, idx - 1)>>
                 \o wrap_first_fit(words, width, idx + 1, idx, Len(w.word) + Len(w.ws))
          ELSE wrap_first_fit(words, width, idx + 1, start,
                              used + Len(w.word) + Len(w.ws))

RECURSIVE line_text(_)
line_text(words) ==
  IF words = <<>> THEN <<>>
  ELSE IF Len(words) = 1 THEN words[1].word
  ELSE words[1].word \o words[1].ws \o line_text(Tail(words))

RECURSIVE line_texts(_)
line_texts(lines) ==
  IF lines = <<>> THEN <<>>
  ELSE <<line_text(Head(lines))>> \o line_texts(Tail(lines))

wrap_single_line(line, width) ==
  line_texts(wrap_first_fit(break_words(find_words(line), width), width, 1, 1, 0))

RECURSIVE wrap_lines(_, _)
wrap_lines(lines, width) ==
  IF lines = <<>> THEN <<>>
  ELSE wrap_single_line(Head(lines), width) \o wrap_lines(Tail(lines), width)

wrap(text, width) == wrap_lines(SplitLines(text), width)

----------------------------------------------------------------------------
(* The widgets: components/*.rs *)

Unit == [kind |-> "Unit"]

(* Text::new *)
Text(text) ==
  [kind |-> "Text", text |-> text, wrapped_text |-> <<>>, size |-> Size(0, 0)]

(* Button::new *)
Button(text) ==
  [kind |-> "Button", text |-> text, formatted_text |-> <<>>, focused |-> FALSE]

(* Center::new().child(c), turned into a view *)
Center(child) == [kind |-> "Center", child |-> child, child_size |-> Size(0, 0)]

(* DynChild::new(f), turned into a view: child_fn is the view f derives,   *)
(* child the default view until the effect has run.                        *)
DynChild(derived) == [kind |-> "DynChild", child_fn |-> derived, child |-> Unit]

(* A widget of the caller's, shared behind View::Widget: its layout        *)
(* returns the size it wants, whatever the limits.                         *)
Widget(returns) == [kind |-> "Widget", returns |-> returns]

(* What a layout call gives: the node with its caches, the size returned   *)
(* (ok) or a panic (~ok), and the layout calls made on the node's child.   *)
Laid(node, sz, ok, calls) == [node |-> node, size |-> sz, ok |-> ok, calls |-> calls]

(* Unit::layout *)
Unit_layout(node, limits) == Laid(node, min_size(limits), TRUE, <<>>)

(* View::layout, View::Widget: widget.lock().unwrap().layout(limits) *)
Widget_layout(node, limits) == Laid(node, node.returns, TRUE, <<>>)

RECURSIVE MaxLen_(_)
MaxLen_(lines) ==
  IF lines = <<>> THEN 0
  ELSE LET rest == MaxLen_(Tail(lines))
       IN IF Len(Head(lines)) > rest THEN Len(Head(lines)) ELSE rest

(* Text::layout *)
Text_width(wrapped, limits) == MaxLen_(wrapped)

Text_height(wrapped, limits) ==
  IF Len(wrapped) <= limits.max_height
  THEN (IF Len(wrapped) >= limits.min_height THEN Len(wrapped)
        ELSE limits.min_height)
  ELSE limits.max_height

Text_layout(node, limits) ==
  LET wrapped == wrap(node.text, limits.max_width)
      sz == Size(Text_width(wrapped, limits), Text_height(wrapped, limits))
  IN Laid([node EXCEPT !.wrapped_text = wrapped, !.size = sz], sz, TRUE, <<>>)

(* Text::draw: the write calls it makes on the surface, in order *)
Text_draw(node) ==
  [i \in 1..Min(Len(node.wrapped_text), node.size.height) |->
     [call |-> "write", at |-> XY(0, i - 1), data |-> node.wrapped_text[i]]]

(* get_text_size with the width of the longest line *)
get_text_size_longest(limits, text) ==
  LET wrapped_text == wrap(text, limits.max_width)
  IN Size(MaxLen_(wrapped_text), Min(Len(wrapped_text), limits.max_height))

(* get_text_size *)
get_text_size(limits, text) ==
  LET wrapped_text == wrap(text, limits.max_width)
      height == Len(wrapped_text)
  IN IF height <= limits.max_height THEN Size(limits.max_width, height)
     ELSE max_size(limits)

(* Button::layout *)
Button_height(limits) ==
  IF limits.max_height = 0 THEN 0
  ELSE IF limits.min_height > 1 THEN limits.min_height
  ELSE 1

Button_format(text, limits) ==
  LET wrapped == wrap(text, limits.max_width)[1]
  IN CASE limits.max_width = 0 -> <<>>
       [] limits.max_width = 1 -> <<"<">>
       [] limits.max_width = 2 -> <<"<", ">">>
       [] OTHER -> <<"<">>
                     \o SubSeq(wrapped, 1, Min(Len(wrapped), limits.max_width - 2))
                     \o <<">">>

Button_width(formatted_text, limits) ==
  IF limits.min_width > Len(formatted_text) THEN limits.min_width
  ELSE Len(formatted_text)

Button_layout(node, limits) ==
  LET formatted == Button_format(node.text, limits)
  IN Laid([node EXCEPT !.formatted_text = formatted],
          Size(Button_width(formatted, limits), Button_height(limits)), TRUE, <<>>)

(* View::layout and CoreComponent::layout: the dispatch on the node kind *)
RECURSIVE layout(_, _)

(* the child given the limits of the Center *)
child_limits_passed_on(limits) == limits

(* Center::layout *)
child_limits(limits) == [limits EXCEPT !.min_width = 0, !.min_height = 0]

Center_layout(node, limits) ==
  LET c == layout(node.child, child_limits(limits))
      call == [limits |-> child_limits(limits), size |-> c.size, ok |-> c.ok]
  IN IF c.ok
     THEN Laid([node EXCEPT !.child = c.node, !.child_size = c.size],
               max_size(limits), TRUE, <<call>>)
     ELSE Laid([node EXCEPT !.child = c.node], Size(0, 0), FALSE, <<call>>)

(* debug_assert_size_within_limits *)
debug_assert_size_within_limits(limits, sz) ==
  debug => is_size_within_limits(limits, sz)

(* DynChild::layout *)
DynChild_layout(node, limits) ==
  LET c == layout(node.child, limits)
      call == [limits |-> limits, size |-> c.size, ok |-> c.ok]
  IN Laid([node EXCEPT !.child = c.node],
          IF c.ok THEN c.size ELSE Size(0, 0),
          c.ok /\ debug_assert_size_within_limits(limits, c.size),
          <<call>>)

layout(node, limits) ==
  CASE node.kind = "Unit" -> Unit_layout(node, limits)
    [] node.kind = "Text" -> Text_layout(node, limits)
    [] node.kind = "Button" -> Button_layout(node, limits)
    [] node.kind = "Center" -> Center_layout(node, limits)
    [] node.kind = "DynChild" -> DynChild_layout(node, limits)
    [] node.kind = "Widget" -> Widget_layout(node, limits)

(* The effect of a DynChild (into_view): the derivation's view replaces    *)
(* the node's child. The trees one firing of one effect of the tree gives. *)
RECURSIVE Rebinds(_)
Rebinds(node) ==
  CASE node.kind = "DynChild" ->
         {[node EXCEPT !.child = node.child_fn]}
           \cup {[node EXCEPT !.child = c] : c \in Rebinds(node.child)}
    [] node.kind = "Center" -> {[node EXCEPT !.child = c] : c \in Rebinds(node.child)}
    [] OTHER -> {}

----------------------------------------------------------------------------
(* The inputs of the layout machine *)

(* The texts of length n: every position holds its own letter, a space or  *)
(* a line break.                                                           *)
WidgetTextsOfLen(n) ==
  {[i \in 1..n |-> IF k[i] = 0 THEN Letters[i] ELSE IF k[i] = 1 THEN SP ELSE NL] :
     k \in [1..n -> 0..2]}

WidgetTexts == UNION {WidgetTextsOfLen(n) : n \in 0..MaxText}

Leaves ==
  {Unit} \cup {Text(t) : t \in WidgetTexts} \cup {Button(t) : t \in WidgetTexts}

RECURSIVE Views(_)
Views(nest) ==
  IF nest = 0 THEN Leaves
  ELSE Views(nest - 1)
         \cup {Center(c) : c \in Views(nest - 1)}
         \cup {DynChild(c) : c \in Views(nest - 1)}

LimitSizes == {Size(w, h) : w \in 0..MaxLimW, h \in 0..MaxLimH}

(* Limits with min <= max on each axis: the invariant callers keep. *)
LayoutLimits ==
  {Limits(minw, maxw, minh, maxh) :
     minw \in 0..MaxLimW, maxw \in 0..MaxLimW, minh \in 0..MaxLimH, maxh \in 0..MaxLimH}

WellFormed(l) == l.min_width <= l.max_width /\ l.min_height <= l.max_height

(* The record of a pass: op, the limits and the size returned (ok) or the  *)
(* panic (~ok), the layout calls made on the node's child, and for a draw  *)
(* the calls made on the surface (drawn).                                  *)
NoLay ==
  [op |-> "none", limits |-> Limits(0, 0, 0, 0), size |-> Size(0, 0),
   ok |-> TRUE, calls |-> <<>>, drawn |-> <<>>]

NoGeo ==
  [op |-> "none", limits |-> Limits(0, 0, 0, 0), size |-> Size(0, 0),
   within |-> FALSE, max |-> Size(0, 0), min |-> Size(0, 0)]

(* The scope before any view is built in it: the signal holds 0, no effect *)
(* is registered, no layout or draw call is in flight.                     *)
NoRt ==
  [signal |-> 0, sets |-> 0, effects |-> <<>>, next |-> 1,
   activated |-> FALSE, registered |-> 0,
   pass |-> "idle", holds |-> 0, limits |-> Limits(0, 0, 0, 0),
   swapped |-> FALSE]

----------------------------------------------------------------------------
(* The surface machine *)

Region == [top_left |-> top_left, size |-> size]

(* The record of an operation: op, its arguments (at, data, style for a    *)
(* write; sz for shrink and shrink_centered), whether shrink was reached   *)
(* (called) and the top_left (tl) and size (to) it got, the result and the *)
(* commands it queued; and for a panic, the number of shrink calls it      *)
(* unwound through, whether each of them fitted its caller's region (fit)  *)
(* and the region before the outermost of them (outer).                    *)
NoOp ==
  [op |-> "none", at |-> XY(0, 0), data |-> <<>>, style |-> NoStyle,
   tl |-> XY(0, 0), to |-> Size(0, 0), sz |-> Size(0, 0), called |-> FALSE,
   result |-> "ok",
   emitted |-> <<>>, unwound |-> 0, fit |-> TRUE,
   outer |-> [top_left |-> XY(0, 0), size |-> Size(0, 0)]]

(* Every active shrink asked for a rectangle inside its caller's region. *)
FramesFit ==
  \A k \in 1..Len(stack) :
    /\ stack[k].top_left.x + stack[k].size.width <= stack[k].original_size.width
    /\ stack[k].top_left.y + stack[k].size.height <= stack[k].original_size.height

(* The record rec of an operation that panicked. *)
Panicked(rec) ==
  [rec EXCEPT !.result = "panic", !.unwound = Len(stack), !.fit = FramesFit,
     !.outer = IF stack = <<>> THEN Region
               ELSE [top_left |-> stack[1].original_top_left,
                     size |-> stack[1].original_size]]

(* A panic unwinds through every active shrink call to the caller that     *)
(* catches it: no frame's code after f(self) runs.                         *)
Unwind ==
  /\ stack' = <<>>
  /\ base' = Region
  /\ panics' = panics + 1
  /\ UNCHANGED <<top_left, size>>

(* DrawSurface::write and write_styled, on either surface *)
Write(at, data, style) ==
  /\ impl = "StdOut" => style = NoStyle
  /\ LET r == IF impl = "Buf" THEN write_styled(at, data, style)
              ELSE StdOut_write(at, data)
     IN /\ buf' = buf \o r.emitted
        /\ writes' = writes + 1
        /\ LET rec == [NoOp EXCEPT !.op = "write", !.at = at, !.data = data,
                         !.style = style, !.result = r.result,
                         !.emitted = r.emitted]
           IN last' = IF r.result = "panic" THEN Panicked(rec) ELSE rec
        /\ IF r.result = "panic" THEN Unwind
           ELSE UNCHANGED <<top_left, size, stack, base, panics>>
  /\ UNCHANGED <<debug, impl>>

(* The two debug_assert! of shrink; the sums are u16. *)
shrink_asserts(tl, sz) ==
  debug =>
    /\ tl.x < size.width /\ tl.y < size.height
    /\ top_left.x + tl.x + sz.width < U16
    /\ top_left.y + tl.y + sz.height < U16
    /\ top_left.x + size.width < U16
    /\ top_left.y + size.height < U16
    /\ top_left.x + tl.x + sz.width <= top_left.x + size.width
    /\ top_left.y + tl.y + sz.height <= top_left.y + size.height

(* let original_top_left = self.top_left; let original_size = self.size;   *)
(* with the arguments of the call.                                         *)
Frame(tl, sz) ==
  [top_left |-> tl, size |-> sz,
   original_top_left |-> top_left, original_size |-> size]

(* self.top_left = self.top_left + top_left; self.size = size; *)
shrink_top_left(tl) == XYAdd(top_left, tl)
shrink_size(sz) == sz

(* shrink up to its call of f, entered as op with the record rec. *)
Enter(rec, tl, sz) ==
  IF /\ shrink_asserts(tl, sz)
     /\ ~(debug /\ XYOverflows(top_left, tl))
  THEN /\ top_left' = shrink_top_left(tl)
       /\ size' = shrink_size(sz)
       /\ stack' = Append(stack, Frame(tl, sz))
       /\ last' = [rec EXCEPT !.tl = tl, !.to = sz, !.called = TRUE]
       /\ UNCHANGED <<base, panics>>
  ELSE /\ Unwind
       /\ last' = Panicked([rec EXCEPT !.tl = tl, !.to = sz, !.called = TRUE])

(* DrawSurface::shrink, until f is called *)
Shrink(tl, sz) ==
  /\ Len(stack) < MaxDepth
  /\ Enter([NoOp EXCEPT !.op = "shrink", !.sz = sz], tl, sz)
  /\ UNCHANGED <<debug, impl, buf, writes>>

(* shrink_centered's debug_assert!(surface_size >= size) *)
centered_assert(sz) == debug => SizeGe(size, sz)

(* the offset rounded up *)
centered_offset_up(available, wanted) == ((available - wanted + 1) % U16) \div 2

(* (surface_size.width - size.width) / 2, on u16 *)
centered_offset(available, wanted) == ((available - wanted) % U16) \div 2

(* DrawSurface::shrink_centered, until f is called *)
ShrinkCentered(sz) ==
  /\ Len(stack) < MaxDepth
  /\ LET rec == [NoOp EXCEPT !.op = "shrink_centered", !.sz = sz]
     IN IF /\ centered_assert(sz)
           /\ ~(debug /\ (size.width < sz.width \/ size.height < sz.height))
        THEN Enter(rec, XY(centered_offset(size.width, sz.width),
                           centered_offset(size.height, sz.height)), sz)
        ELSE /\ Unwind
             /\ last' = Panicked(rec)
  /\ UNCHANGED <<debug, impl, buf, writes>>

(* shrink without its self.top_left = original_top_left *)
restore_top_left_kept(frame) == top_left

(* self.top_left = original_top_left; self.size = original_size; *)
restore_top_left(frame) == frame.original_top_left
restore_size(frame) == frame.original_size

(* f returns: shrink restores the region and returns. *)
ShrinkReturn ==
  /\ stack # <<>>
  /\ LET frame == stack[Len(stack)]
     IN /\ top_left' = restore_top_left(frame)
        /\ size' = restore_size(frame)
        /\ last' = [NoOp EXCEPT !.op = "return"]
  /\ stack' = SubSeq(stack, 1, Len(stack) - 1)
  /\ UNCHANGED <<debug, impl, buf, base, panics, writes>>

(* f fails partway: the callback panics. *)
CallbackPanic ==
  /\ stack # <<>>
  /\ Unwind
  /\ last' = Panicked([NoOp EXCEPT !.op = "callback"])
  /\ UNCHANGED <<debug, impl, buf, writes>>

(* BufDrawSurface::resize: no shrink is active, the callback of a shrink   *)
(* holds the surface as a dyn DrawSurface.                                 *)
Resize(new_size) ==
  /\ impl = "Buf"
  /\ stack = <<>>
  /\ size' = new_size
  /\ base' = [top_left |-> top_left, size |-> new_size]
  /\ last' = [NoOp EXCEPT !.op = "resize"]
  /\ UNCHANGED <<debug, impl, top_left, buf, stack, panics, writes>>

(* BufDrawSurface::new(writer, size); StdOutDrawSurface::default() with    *)
(* the size render_view gives it.                                          *)
Init ==
  /\ debug \in BOOLEAN
  /\ impl \in {"Buf", "StdOut"}
  /\ top_left = XY(0, 0)
  /\ size \in Sizes
  /\ buf = <<>>
  /\ stack = <<>>
  /\ base = [top_left |-> top_left, size |-> size]
  /\ panics = 0
  /\ writes = 0
  /\ last = [NoOp EXCEPT !.op = "new"]
  /\ view = Unit
  /\ lay = NoLay
  /\ geo = NoGeo
  /\ rt = NoRt

(* The caller goes on using the surface as long as it catches the panics   *)
(* and has writes left.                                                    *)
Running == panics < MaxPanics /\ writes < MaxWrites

(* Deep nesting, one text. *)
Next ==
  /\ Running
  /\ \/ \E at \in XYs, style \in Styles : Write(at, <<"a", "b">>, style)
     \/ \E tl \in XYs, sz \in Sizes : Shrink(tl, sz)
     \/ \E sz \in Sizes : ShrinkCentered(sz)
     \/ ShrinkReturn
     \/ CallbackPanic
     \/ \E sz \in Sizes : Resize(sz)
  /\ UNCHANGED <<view, lay, geo, rt>>

(* Every text, at most one shrink active. *)
NextWrite ==
  /\ Running
  /\ \/ \E at \in XYs, data \in WriteData, style \in Styles : Write(at, data, style)
     \/ \E tl \in XYs, sz \in Sizes : stack = <<>> /\ Shrink(tl, sz)
     \/ \E sz \in Sizes : stack = <<>> /\ ShrinkCentered(sz)
     \/ ShrinkReturn
     \/ CallbackPanic
     \/ \E sz \in Sizes : Resize(sz)
  /\ UNCHANGED <<view, lay, geo, rt>>

vars ==
  <<debug, impl, top_left, size, buf, stack, base, panics, writes, last,
    view, lay, geo, rt>>

Spec == Init /\ [][Next]_vars

SpecWrite == Init /\ [][NextWrite]_vars

----------------------------------------------------------------------------
(* The layout machine *)

SurfaceIdle ==
  /\ impl = "Buf"
  /\ top_left = XY(0, 0)
  /\ size = Size(0, 0)
  /\ buf = <<>>
  /\ stack = <<>>
  /\ base = [top_left |-> XY(0, 0), size |-> Size(0, 0)]
  /\ writes = 0
  /\ last = NoOp

surfaceVars == <<impl, top_left, size, buf, stack, base, writes, last>>

(* Widget::layout on the root view: one layout pass *)
LayoutPass(limits) ==
  /\ LET r == layout(view, limits)
     IN /\ view' = r.node
        /\ lay' = [NoLay EXCEPT !.op = "layout", !.limits = limits,
                     !.size = r.size, !.ok = r.ok, !.calls = r.calls]
        /\ panics' = IF r.ok THEN panics ELSE panics + 1
  /\ UNCHANGED <<debug, geo>>
  /\ UNCHANGED surfaceVars

(* The effect of one DynChild of the tree fires. *)
EffectFires ==
  /\ \E v \in Rebinds(view) : view' = v
  /\ lay' = [NoLay EXCEPT !.op = "effect"]
  /\ UNCHANGED <<debug, geo, panics>>
  /\ UNCHANGED surfaceVars

(* The view a caller has built in a scope, before any effect has run. *)
InitLayout ==
  /\ debug \in BOOLEAN
  /\ view \in Views(MaxNest)
  /\ lay = NoLay
  /\ geo = NoGeo
  /\ rt = NoRt
  /\ panics = 0
  /\ SurfaceIdle

NextLayout ==
  /\ panics < MaxPanics
  /\ \/ \E limits \in {l \in LayoutLimits : WellFormed(l)} : LayoutPass(limits)
     \/ EffectFires
  /\ UNCHANGED rt

SpecLayout == InitLayout /\ [][NextLayout]_vars

----------------------------------------------------------------------------
(* The reactive machine: a view with a DynChild is built in a scope, the   *)
(* signal its derivation reads is set, the view is laid out and drawn.     *)
(* create_effect (leptos_reactive) registers the effect in the scope and   *)
(* runs it once at once; a set of the signal runs the effects that read it *)
(* before it returns, oldest first.                                        *)

(* The derivations: "text" reads the signal and gives its value as text;   *)
(* "closure" reads it and gives a closure that gives the text; "lazy"      *)
(* gives that closure without reading the signal itself; "center" reads it *)
(* and gives a Center around such a closure; "widget" reads it and gives a *)
(* widget of the caller's, whose layout and draw set the signal.           *)
Derivations == {"text", "closure", "lazy", "center", "widget"}

reads(child_fn) == child_fn # "lazy"

(* DynChild::new: child_fn = move |cx| child_fn().into_view(cx); what      *)
(* child_fn() gives when the signal holds s. A closure is a DynChild::new  *)
(* of itself (impl IntoView for F).                                        *)
derive(child_fn, s) ==
  CASE child_fn = "text" -> Text(<<Letters[s + 1]>>)
    [] child_fn = "closure" -> DynChild("text")
    [] child_fn = "lazy" -> DynChild("text")
    [] child_fn = "center" -> Center(DynChild("text"))
    [] child_fn = "widget" -> Widget(Size(1, 1))

(* The DynChild node in the tree: id stands for its shared child slot, the *)
(* Arc the node and its effect both hold.                                  *)
Bound(node, id, child) ==
  [kind |-> "DynChild", child_fn |-> node.child_fn, child |-> child, id |-> id]

RECURSIVE into_view(_, _)
RECURSIVE effect_run(_, _)

(* an effect whose body never runs the derivation *)
effect_not_run(child_fn, st) == [view |-> Unit, rt |-> st]

(* The effect's body, let new_child = child_fn(cx): the view, and the      *)
(* scope with the effects the derived view registered.                     *)
effect_run(child_fn, st) == into_view(derive(child_fn, st.signal), st)

(* IntoView::into_view(self, cx), in the scope st *)
into_view(desc, st) ==
  CASE desc.kind = "DynChild" ->
         LET id == st.next
             created == [st EXCEPT !.next = id + 1,
                           !.effects = Append(@, [node |-> id,
                                                  child_fn |-> desc.child_fn])]
             r == effect_run(desc.child_fn, created)
         IN [view |-> Bound(desc, id, r.view), rt |-> r.rt]
    [] desc.kind = "Center" ->
         LET r == into_view(desc.child, st)
         IN [view |-> [desc EXCEPT !.child = r.view], rt |-> r.rt]
    [] OTHER -> [view |-> desc, rt |-> st]

(* *child.lock().unwrap() = new_child, on the slot id *)
RECURSIVE SetChild(_, _, _)
SetChild(node, id, new_child) ==
  CASE node.kind = "DynChild" ->
         IF node.id = id THEN [node EXCEPT !.child = new_child]
         ELSE [node EXCEPT !.child = SetChild(@, id, new_child)]
    [] node.kind = "Center" -> [node EXCEPT !.child = SetChild(@, id, new_child)]
    [] OTHER -> node

(* The effects pending run one after the other on the thread that set the  *)
(* signal; an effect whose slot that thread has locked (held) never gets   *)
(* the lock: it is blocked after its derivation, and so is the thread.     *)
RECURSIVE run_effects(_, _, _, _)
run_effects(pending, tree, st, held) ==
  IF pending = <<>> THEN [view |-> tree, rt |-> st, blocked |-> FALSE]
  ELSE LET e == Head(pending)
           r == effect_run(e.child_fn, st)
       IN IF e.node = held
          THEN [view |-> tree, rt |-> r.rt, blocked |-> TRUE]
          ELSE run_effects(Tail(pending), SetChild(tree, e.node, r.view),
                           r.rt, held)

(* The outermost DynChild of the tree *)
RECURSIVE Outermost(_)
Outermost(node) ==
  IF node.kind = "Center" THEN Outermost(node.child) ELSE node

(* View::draw and the draw of each kind: the calls made on the surface *)
RECURSIVE draw(_)
draw(node) ==
  CASE node.kind = "Text" -> Text_draw(node)
    [] node.kind = "Button" ->
         <<[call |-> "write_styled", at |-> XY(0, 0), data |-> node.formatted_text,
            style |-> Style(FALSE, node.focused, node.focused)]>>
    [] node.kind = "Center" ->
         <<[call |-> "shrink_centered", size |-> node.child_size,
            f |-> draw(node.child)]>>
    [] node.kind = "DynChild" -> draw(node.child)
    [] OTHER -> <<>>

reactiveIdle == <<debug, geo, panics>>

(* f(cx).into_view(cx): the view is built in the scope *)
IntoView ==
  /\ ~rt.activated
  /\ LET r == into_view(view, rt)
     IN /\ view' = r.view
        /\ rt' = [r.rt EXCEPT !.activated = TRUE,
                    !.registered = Len(r.rt.effects)]
  /\ lay' = [NoLay EXCEPT !.op = "into_view"]
  /\ UNCHANGED reactiveIdle
  /\ UNCHANGED surfaceVars

(* The signal is set to v: by the caller between two passes, or by the     *)
(* widget under the DynChild during its layout or draw. Locking a mutex    *)
(* the thread holds never returns: it deadlocks or it panics.              *)
SignalSet(v) ==
  /\ rt.activated
  /\ rt.pass \in {"idle", "layout", "draw"}
  /\ rt.pass # "idle" => Outermost(view).child.kind = "Widget"
  /\ rt.sets < MaxSets
  /\ v # rt.signal
  /\ LET st == [rt EXCEPT !.signal = v, !.sets = @ + 1]
         pending == SelectSeq(rt.effects, LAMBDA e : reads(e.child_fn))
         r == run_effects(pending, view, st, rt.holds)
     IN /\ view' = r.view
        /\ \E outcome \in {"deadlock", "panic"} :
             rt' = IF r.blocked
                   THEN [r.rt EXCEPT !.pass = outcome, !.swapped = TRUE]
                   ELSE r.rt
  /\ lay' = [NoLay EXCEPT !.op = "set"]
  /\ UNCHANGED reactiveIdle
  /\ UNCHANGED surfaceVars

(* DynChild::layout or draw locks the child: self.child.lock().unwrap() *)
PassBegin(op, limits) ==
  /\ rt.activated
  /\ rt.pass = "idle"
  /\ rt' = [rt EXCEPT !.pass = op, !.holds = Outermost(view).id,
                      !.limits = limits]
  /\ lay' = [NoLay EXCEPT !.op = "locked"]
  /\ UNCHANGED view
  /\ UNCHANGED reactiveIdle
  /\ UNCHANGED surfaceVars

(* The call on the child returns and the lock is released; a panic of the  *)
(* layout poisons it.                                                      *)
PassEnd ==
  /\ rt.pass \in {"layout", "draw"}
  /\ IF rt.pass = "layout"
     THEN LET r == layout(view, rt.limits)
          IN /\ view' = r.node
             /\ lay' = [NoLay EXCEPT !.op = "layout", !.limits = rt.limits,
                          !.size = r.size, !.ok = r.ok, !.calls = r.calls]
             /\ rt' = [rt EXCEPT !.pass = IF r.ok THEN "idle" ELSE "panic",
                                 !.holds = 0, !.limits = NoRt.limits]
     ELSE /\ lay' = [NoLay EXCEPT !.op = "draw", !.drawn = draw(view)]
          /\ rt' = [rt EXCEPT !.pass = "idle", !.holds = 0,
                              !.limits = NoRt.limits]
          /\ UNCHANGED view
  /\ UNCHANGED reactiveIdle
  /\ UNCHANGED surfaceVars

ReactiveRoots ==
  {DynChild(d) : d \in Derivations} \cup {Center(DynChild(d)) : d \in Derivations}

PassLimits == {l \in LayoutLimits : WellFormed(l)}

InitReactive ==
  /\ debug \in BOOLEAN
  /\ view \in ReactiveRoots
  /\ lay = NoLay
  /\ geo = NoGeo
  /\ rt \in {[NoRt EXCEPT !.signal = s] : s \in 0..MaxSignal}
  /\ panics = 0
  /\ SurfaceIdle

NextReactive ==
  \/ IntoView
  \/ \E v \in 0..MaxSignal : SignalSet(v)
  \/ \E limits \in PassLimits : PassBegin("layout", limits)
  \/ PassBegin("draw", NoRt.limits)
  \/ PassEnd

SpecReactive == InitReactive /\ [][NextReactive]_vars

----------------------------------------------------------------------------
(* The render machine: render_view lays the root view out under the strict *)
(* limits of the terminal                                                  *)

RenderLeaves ==
  {Widget(sz) : sz \in LimitSizes}
    \cup {Unit, Text(<<"a">>), Button(<<"a">>)}

RenderViews ==
  RenderLeaves
    \cup {Center(c) : c \in RenderLeaves}
    \cup {DynChild(c) : c \in RenderLeaves}

(* render_view, up to its draw: the layout of the root and the assertion   *)
(* on the size it returned                                                 *)
RenderLayout(w, h) ==
  /\ LET limits == strict(w, h)
         r == layout(view, limits)
         ok == r.ok /\ debug_assert_size_within_limits(limits, r.size)
     IN /\ view' = r.node
        /\ lay' = [NoLay EXCEPT !.op = "render", !.limits = limits,
                     !.size = r.size, !.ok = ok, !.calls = r.calls]
        /\ panics' = IF ok THEN panics ELSE panics + 1
  /\ UNCHANGED <<debug, geo>>
  /\ UNCHANGED surfaceVars

InitRender ==
  /\ debug \in BOOLEAN
  /\ view \in RenderViews
  /\ lay = NoLay
  /\ geo = NoGeo
  /\ rt = NoRt
  /\ panics = 0
  /\ SurfaceIdle

NextRender ==
  /\ panics < MaxPanics
  /\ \/ \E w \in 0..MaxLimW, h \in 0..MaxLimH : RenderLayout(w, h)
     \/ EffectFires
  /\ UNCHANGED rt

SpecRender == InitRender /\ [][NextRender]_vars

----------------------------------------------------------------------------
(* The text machine: a Text is measured, laid out and drawn *)

Hello == <<"H", "e", "l", "l", "o">>
HelloThere == Hello \o <<" ", "t", "h", "e", "r", "e">>

SizingTexts == WidgetTexts \cup {Hello, HelloThere}

SizingLimits ==
  {l \in LayoutLimits : WellFormed(l)}
    \cup {Limits(0, 10, 0, 10), Limits(0, 10, 0, 1)}

(* get_text_size(limits, text), on the text of the view *)
GetTextSize(limits) ==
  /\ lay' = [NoLay EXCEPT !.op = "get_text_size", !.limits = limits,
               !.size = get_text_size(limits, view.text)]
  /\ UNCHANGED <<debug, view, geo, panics>>
  /\ UNCHANGED surfaceVars

(* Text::draw on a surface: the calls it makes *)
TextDraw ==
  /\ lay' = [NoLay EXCEPT !.op = "draw", !.size = view.size,
               !.drawn = Text_draw(view)]
  /\ UNCHANGED <<debug, view, geo, panics>>
  /\ UNCHANGED surfaceVars

InitText ==
  /\ debug \in BOOLEAN
  /\ view \in {Text(t) : t \in SizingTexts}
  /\ lay = NoLay
  /\ geo = NoGeo
  /\ rt = NoRt
  /\ panics = 0
  /\ SurfaceIdle

(* A new Text is measured, or laid out and then drawn. *)
NextText ==
  /\ \/ \E limits \in SizingLimits : lay.op = "none" /\ GetTextSize(limits)
     \/ \E limits \in SizingLimits : lay.op = "none" /\ LayoutPass(limits)
     \/ lay.op = "layout" /\ TextDraw
  /\ UNCHANGED rt

SpecText == InitText /\ [][NextText]_vars

----------------------------------------------------------------------------
(* The functions of Limits, applied to any limits and any size *)

(* Limits::is_size_within_limits *)
CheckWithin(limits, sz) ==
  /\ geo' = [NoGeo EXCEPT !.op = "is_size_within_limits", !.limits = limits,
               !.size = sz, !.within = is_size_within_limits(limits, sz),
               !.max = max_size(limits), !.min = min_size(limits)]
  /\ UNCHANGED <<debug, view, lay, panics, rt>>
  /\ UNCHANGED surfaceVars

(* Limits::strict(width, height), then max_size, min_size and              *)
(* is_size_within_limits of the size on the limits it gave                 *)
StrictLimits(w, h) ==
  /\ LET limits == strict(w, h)
     IN geo' = [NoGeo EXCEPT !.op = "strict", !.limits = limits,
                  !.size = Size(w, h),
                  !.within = is_size_within_limits(limits, Size(w, h)),
                  !.max = max_size(limits), !.min = min_size(limits)]
  /\ UNCHANGED <<debug, view, lay, panics, rt>>
  /\ UNCHANGED surfaceVars

InitGeometry ==
  /\ debug \in BOOLEAN
  /\ view = Unit
  /\ lay = NoLay
  /\ geo = NoGeo
  /\ rt = NoRt
  /\ panics = 0
  /\ SurfaceIdle

(* The functions are pure: each run applies one of them to one input. *)
NextGeometry ==
  /\ geo.op = "none"
  /\ \/ \E limits \in LayoutLimits, sz \in LimitSizes : CheckWithin(limits, sz)
     \/ \E w \in 0..MaxLimW, h \in 0..MaxLimH : StrictLimits(w, h)

SpecGeometry == InitGeometry /\ [][NextGeometry]_vars

----------------------------------------------------------------------------
(* Properties of the surfaces *)

(* The characters the commands show, escape codes left out. *)
RECURSIVE EmittedChars(_)
EmittedChars(cmds) ==
  IF cmds = <<>> THEN <<>>
  ELSE (IF Head(cmds).cmd = "Print" THEN Chars(Head(cmds).text) ELSE <<>>)
         \o EmittedChars(Tail(cmds))

(* The sum of the top_left arguments of the first k active shrink calls. *)
RECURSIVE Offset(_)
Offset(k) ==
  IF k = 0 THEN XY(0, 0)
  ELSE XY(Offset(k - 1).x + stack[k].top_left.x,
          Offset(k - 1).y + stack[k].top_left.y)

(* C3: a write on BufDrawSurface at a column x <= W, in a row of the       *)
(* surface, emits exactly the first min(length of the first line, W - x)   *)
(* characters of the text's first line.                                    *)
C3_WriteClipping ==
  (/\ last.op = "write" /\ impl = "Buf"
   /\ last.at.x <= size.width /\ last.at.y < size.height)
  => EmittedChars(last.emitted)
       = SubSeq(FirstLine(last.data), 1,
                Min(Len(FirstLine(last.data)), size.width - last.at.x))

(* C4: a write on BufDrawSurface at a row at.y >= H emits nothing to the   *)
(* sink, no cursor move and no text.                                       *)
C4_RowOutsideDropped ==
  (last.op = "write" /\ impl = "Buf" /\ last.at.y >= size.height)
  => last.emitted = <<>>

(* C5: a write completes normally and reports no error, whatever the       *)
(* surface size, the position and the text.                                *)
C5_WriteNeverAborts ==
  last.op = "write" => last.result = "ok"

(* C6: while the callback of a shrink runs, the region is the rectangle    *)
(* the call asked for, relative to the region of its caller, and once      *)
(* every shrink has returned the region is the one the surface had before  *)
(* the outermost call: at any nesting depth top_left is the base top_left  *)
(* plus the offsets of the active calls, and size is the innermost call's. *)
C6_ScopedNarrowing ==
  /\ top_left = XY((base.top_left.x + Offset(Len(stack)).x) % U16,
                   (base.top_left.y + Offset(Len(stack)).y) % U16)
  /\ size = IF stack = <<>> THEN base.size ELSE stack[Len(stack)].size

(* A nested shrink, at an offset, has returned into its caller's callback. *)
C6_Witness ==
  /\ last.op = "return"
  /\ Len(stack) = 1
  /\ stack[1].top_left.x > 0
  /\ size # base.size

(* C7: after the callback of a shrink fails, the region is the one the     *)
(* surface had before the (outermost) shrink call (here for shrink calls   *)
(* whose rectangle fitted the region).                                     *)
C7_RestoredAfterFailure ==
  (last.result = "panic" /\ last.unwound > 0 /\ last.fit) => Region = last.outer

(* The region shrink_centered was called in. *)
CenteredIn ==
  IF last.result = "panic" THEN size ELSE stack[Len(stack)].original_size

(* C8: shrink_centered(size) on a region (W, H) with size.width <= W and   *)
(* size.height <= H calls shrink with top_left ((W - w) / 2, (H - h) / 2), *)
(* rounded down, and with the size it was given.                           *)
C8_CenteredOffsets ==
  (/\ last.op = "shrink_centered"
   /\ last.sz.width <= CenteredIn.width
   /\ last.sz.height <= CenteredIn.height)
  => /\ last.called
     /\ 2 * last.tl.x <= CenteredIn.width - last.sz.width
     /\ 2 * last.tl.x + 1 >= CenteredIn.width - last.sz.width
     /\ 2 * last.tl.y <= CenteredIn.height - last.sz.height
     /\ 2 * last.tl.y + 1 >= CenteredIn.height - last.sz.height
     /\ last.to = last.sz

(* shrink_centered has narrowed a region whose free width and free height  *)
(* differ in parity: one offset is exact, the other rounded down.          *)
C8_Witness ==
  /\ last.op = "shrink_centered"
  /\ last.result = "ok"
  /\ stack # <<>>
  /\ CenteredIn = Size(2, 1)
  /\ last.sz = Size(0, 0)
  /\ last.tl = XY(1, 0)
  /\ Region = [top_left |-> XYAdd(stack[Len(stack)].original_top_left, XY(1, 0)),
               size |-> Size(0, 0)]

(* C9: a write at `at` inside any nesting of shrink calls reaches the sink *)
(* at the absolute cell: the offsets of the enclosing calls plus at (here  *)
(* for shrink calls whose rectangle fitted the region, and a write inside  *)
(* the region).                                                            *)
C9_WritesAreRelative ==
  (/\ last.op = "write" /\ last.emitted # <<>> /\ FramesFit
   /\ last.at.x < size.width /\ last.at.y < size.height)
  => last.emitted[1] =
       MoveTo(base.top_left.x + Offset(Len(stack)).x + last.at.x,
              base.top_left.y + Offset(Len(stack)).y + last.at.y)

(* C17: in a debug build shrink(top_left, size, f) fails fast if and only   *)
(* if the rectangle does not fit the region (top_left.x + size.width >      *)
(* region width or top_left.y + size.height > region height), and           *)
(* shrink_centered(size, f) if and only if size.width > region width or     *)
(* size.height > region height: a request that fits, a zero-sized           *)
(* rectangle in a zero-sized region included, is accepted.                  *)
C17_ShrinkCheckIsExact ==
  (debug /\ last.op \in {"shrink", "shrink_centered"})
  => IF last.op = "shrink"
     THEN (last.result = "panic")
            <=> (\/ last.tl.x + last.to.width > CenteredIn.width
                 \/ last.tl.y + last.to.height > CenteredIn.height)
     ELSE (last.result = "panic")
            <=> (\/ last.sz.width > CenteredIn.width
                 \/ last.sz.height > CenteredIn.height)

----------------------------------------------------------------------------
(* Properties of the geometry and of layout *)

(* Each dimension of sz inside [min, max], each axis on its own. *)
Within(l, sz) ==
  /\ l.min_width <= sz.width /\ sz.width <= l.max_width
  /\ l.min_height <= sz.height /\ sz.height <= l.max_height

(* C1: for limits with min <= max on each axis, the size layout returns    *)
(* has its width in [min_width, max_width] and its height in               *)
(* [min_height, max_height], for every built-in node kind, after any       *)
(* sequence of layout calls.                                               *)
C1_LayoutConformance ==
  (lay.op = "layout" /\ lay.ok /\ WellFormed(lay.limits))
  => Within(lay.limits, lay.size)

(* C2: is_size_within_limits(size) is true if and only if each dimension   *)
(* of size is inside its [min, max], never by the area (here for limits    *)
(* with min <= max on each axis).                                          *)
C2_WithinIsPerAxis ==
  (geo.op = "is_size_within_limits" /\ WellFormed(geo.limits))
  => (geo.within <=> Within(geo.limits, geo.size))

(* The number of lines of the text wrapped to the width of the limits, and *)
(* the length of the longest of them.                                      *)
WrappedLines(text, limits) == Len(wrap(text, limits.max_width))

Longest(lines) ==
  IF lines = <<>> THEN 0
  ELSE CHOOSE m \in {Len(lines[i]) : i \in 1..Len(lines)} :
         \A i \in 1..Len(lines) : Len(lines[i]) <= m

NoMinimum(l) == l.min_width = 0 /\ l.min_height = 0

(* C12 as stated: for text laid out under limits with min = 0, by          *)
(* get_text_size or by Text::layout, the reported size has width equal to  *)
(* max_width and height equal to min(wrapped line count, max_height).      *)
C12_WidthPinnedToMax ==
  (lay.op \in {"get_text_size", "layout"} /\ NoMinimum(lay.limits))
  => /\ lay.size.width = lay.limits.max_width
     /\ lay.size.height
          = Min(WrappedLines(view.text, lay.limits), lay.limits.max_height)

(* C12, amended: get_text_size under limits with min = 0 reports width     *)
(* equal to max_width and height equal to min(wrapped line count,          *)
(* max_height): "Hello" under 10x10 gives (10, 1), "Hello there" under     *)
(* 10x10 gives (10, 2) and under 10x1 gives (10, 1); Text::layout reports  *)
(* the same height, and as width the length of the longest wrapped line.   *)
C12_GetTextSizePinsWidth ==
  /\ (lay.op = "get_text_size" /\ NoMinimum(lay.limits))
     => /\ lay.size.width = lay.limits.max_width
        /\ lay.size.height
             = Min(WrappedLines(view.text, lay.limits), lay.limits.max_height)
        /\ (view.text = Hello /\ lay.limits = Limits(0, 10, 0, 10))
             => lay.size = Size(10, 1)
        /\ (view.text = HelloThere /\ lay.limits = Limits(0, 10, 0, 10))
             => lay.size = Size(10, 2)
        /\ (view.text = HelloThere /\ lay.limits = Limits(0, 10, 0, 1))
             => lay.size = Size(10, 1)
  /\ (lay.op = "layout" /\ NoMinimum(lay.limits))
     => /\ lay.size.width = Longest(view.wrapped_text)
        /\ lay.size.height
             = Min(WrappedLines(view.text, lay.limits), lay.limits.max_height)

(* "Hello there" has been measured under 10x1: two lines, one kept. *)
C12_Witness ==
  /\ lay.op = "get_text_size"
  /\ view.text = HelloThere
  /\ lay.limits = Limits(0, 10, 0, 1)
  /\ WrappedLines(view.text, lay.limits) = 2
  /\ lay.size = Size(10, 1)

(* C14: Text.layout(L), with n wrapped lines of longest length m, returns  *)
(* height = max(min(n, max_height), min_height) and width = m with         *)
(* m <= max_width, and a following draw writes exactly the first           *)
(* min(n, height) wrapped lines, line i at position (0, i).                *)
C14_TextLayoutAndDraw ==
  /\ lay.op = "layout"
     => LET n == WrappedLines(view.text, lay.limits)
            m == Longest(wrap(view.text, lay.limits.max_width))
        IN /\ lay.size.height
                = Max(Min(n, lay.limits.max_height), lay.limits.min_height)
           /\ lay.size.width = m
           /\ m <= lay.limits.max_width
  /\ (lay.op = "draw" /\ view.wrapped_text # <<>>)
     => LET n == Len(view.wrapped_text)
        IN /\ Len(lay.drawn) = Min(n, view.size.height)
           /\ \A i \in 1..Len(lay.drawn) :
                lay.drawn[i] = [call |-> "write", at |-> XY(0, i - 1),
                                data |-> view.wrapped_text[i]]

(* C16: in a debug build, whenever the layout of a node (the root of the   *)
(* render pass, the child of a DynChild or of a Center, a shared widget)   *)
(* returns a size that is not within the limits passed to it, the pass     *)
(* fails: a render pass that goes on to draw has only seen sizes inside    *)
(* their limits.                                                           *)
C16_PostConditionOnEveryNode ==
  (debug /\ lay.op = "render" /\ lay.ok)
  => /\ Within(lay.limits, lay.size)
     /\ \A i \in 1..Len(lay.calls) :
          lay.calls[i].ok => Within(lay.calls[i].limits, lay.calls[i].size)

----------------------------------------------------------------------------
(* Properties of the reactive rebinding *)

(* The leaf a node forwards its layout and draw to. *)
RECURSIVE Leaf(_)
Leaf(node) ==
  IF node.kind \in {"DynChild", "Center"} THEN Leaf(node.child) ELSE node

(* The text the derivations give for the value the signal holds. *)
Newest == <<Letters[rt.signal + 1]>>

(* The texts written by the calls of a draw. *)
RECURSIVE Written(_)
Written(calls) ==
  IF calls = <<>> THEN {}
  ELSE (IF Head(calls).call = "shrink_centered" THEN Written(Head(calls).f)
        ELSE {Head(calls).data})
         \cup Written(Tail(calls))

(* The nodes whose effect a set of the signal fires. *)
Fired ==
  {rt.effects[i].node :
     i \in {j \in 1..Len(rt.effects) : reads(rt.effects[j].child_fn)}}

(* The tree without the current child of the nodes ids. *)
RECURSIVE Blank(_, _)
Blank(node, ids) ==
  CASE node.kind = "DynChild" ->
         IF node.id \in ids THEN [node EXCEPT !.child = Unit]
         ELSE [node EXCEPT !.child = Blank(@, ids)]
    [] node.kind = "Center" -> [node EXCEPT !.child = Blank(@, ids)]
    [] OTHER -> node

(* The slots of the DynChild nodes of the tree. *)
RECURSIVE DynIds(_)
DynIds(node) ==
  CASE node.kind = "DynChild" -> {node.id} \cup DynIds(node.child)
    [] node.kind = "Center" -> DynIds(node.child)
    [] OTHER -> {}

(* The current child of every DynChild is the output of its derivation for *)
(* the value the signal holds, never the default empty node; a layout pass *)
(* has laid that output out and a draw pass writes that text (if the       *)
(* layout kept a line of it) and no other.                                 *)
ShowsNewest ==
  rt.activated
  => /\ Outermost(view).child # Unit
     /\ Leaf(view).kind \in {"Text", "Widget"}
     /\ Leaf(view).kind = "Text" => Leaf(view).text = Newest
     /\ (lay.op = "layout" /\ Leaf(view).kind = "Text")
          => /\ Leaf(view).wrapped_text = <<Newest>>
             /\ Leaf(view).size.width = 1
             /\ lay.calls # <<>>
     /\ lay.op = "draw"
          => /\ Written(lay.drawn) \subseteq {Newest}
             /\ (Leaf(view).kind = "Text" /\ Leaf(view).size.height > 0)
                  => Written(lay.drawn) = {Newest}

(* C11: once a DynChild has been turned into a view its current child is   *)
(* the first derivation's output, not the default empty node; after a      *)
(* mutation of the signal that fires the effect, the next layout or draw   *)
(* pass forwards to the newest derivation's output; and a firing changes   *)
(* nothing in the tree but the current child of the nodes whose effect     *)
(* fired: the ancestors keep their identity and their state.               *)
C11_ReactiveRebinding ==
  /\ []ShowsNewest
  /\ [][lay'.op = "set" => Blank(view', Fired) = Blank(view, Fired)]_vars

(* A Center around a DynChild of a closure has been laid out, the signal   *)
(* set, and the view laid out and drawn again: the new text is written.    *)
C11_Witness ==
  /\ lay.op = "draw"
  /\ rt.sets > 0
  /\ view.kind = "Center"
  /\ view.child_size = Size(1, 1)
  /\ Outermost(view).child_fn = "closure"
  /\ Outermost(view).child.kind = "DynChild"
  /\ Written(lay.drawn) = {Newest}

(* C15: when the effect of a DynChild fires while a layout or draw call on *)
(* that node is in flight, the call completes on the previous child: the   *)
(* thread neither deadlocks nor fails.                                     *)
C15_SwapDuringPass ==
  rt.swapped => rt.pass \in {"idle", "layout", "draw"}

(* C18: turning a DynChild into a view registers exactly one effect for    *)
(* that node, and the firings of the effects register no further effect in *)
(* the scope, whatever the derivation gives (a closure, a view with a      *)
(* DynChild inside).                                                       *)
C18_SingleRegistration ==
  rt.activated
  => /\ Len(rt.effects) = rt.registered
     /\ \A id \in DynIds(view) :
          Cardinality({i \in 1..Len(rt.effects) : rt.effects[i].node = id}) = 1

(* C13: for every width w and height h, the limits strict(w, h) have       *)
(* max_size() = (w, h) and min_size() = (w, h), and is_size_within_limits  *)
(* accepts (w, h) under them.                                              *)
C13_StrictRoundTrip ==
  geo.op = "strict"
  => /\ geo.max = geo.size
     /\ geo.min = geo.size
     /\ geo.within

(* strict has been called with a width and a height that differ, neither 0 *)
C13_Witness ==
  /\ geo.op = "strict"
  /\ geo.size.width > geo.size.height
  /\ geo.size.height > 0
  /\ geo.limits.min_width = geo.size.width
  /\ geo.limits.max_height = geo.size.height

(* C10: Center.layout(L) calls its child's layout exactly once, with the   *)
(* limits {min_width = 0, min_height = 0, max_width = L.max_width,         *)
(* max_height = L.max_height}, and when the child has reported a size it   *)
(* records that size and returns L.max_size(), whatever the size is.       *)
C10_CenterLayout ==
  (lay.op = "layout" /\ view.kind = "Center")
  => /\ Len(lay.calls) = 1
     /\ lay.calls[1].limits
          = Limits(0, lay.limits.max_width, 0, lay.limits.max_height)
     /\ lay.calls[1].ok
          => /\ lay.ok
             /\ view.child_size = lay.calls[1].size
             /\ lay.size = Size(lay.limits.max_width, lay.limits.max_height)

(* A Center has been laid out under limits with a minimum, around a child  *)
(* that reported a size smaller than the maximum.                          *)
C10_Witness ==
  /\ lay.op = "layout" /\ view.kind = "Center" /\ lay.ok
  /\ lay.limits.min_width > 0 /\ lay.limits.min_height > 0
  /\ view.child.kind = "Button"
  /\ view.child_size # lay.size
  /\ view.child_size.width > 0

====
